---- MODULE Spec2Model ----
(***************************************************************************)
(* The breadth-first crawler of tools/web_crawling_tools.py:               *)
(* web_crawling_tool drives a FIFO frontier of (url, depth) pairs over     *)
(* crawl_single_url, which turns one HTTP response into a CrawledContent.  *)
(***************************************************************************)
EXTENDS Integers, Sequences, FiniteSets, TLC

(* ------------------------------ bounds --------------------------------- *)

\* max_depth ranges over -NegParam .. MaxDepthBound
MaxDepthBound == 2
\* max_links_per_page ranges over -NegParam .. MaxLinksBound
MaxLinksBound == 2
\* how far below zero the two integer arguments range
NegParam == 1
\* the longest list of anchors a served HTML page holds
MaxPageLinks == 2
\* characters of a URL, of a short exception message, of a served body
UrlChars == 20
ShortMsg == 30
BodyChars == 40

(* -------------------------- program constants -------------------------- *)

\* content[:5000]
ContentLimit == 5000
\* len("Error crawling ") and len(": ") in the f-string of the except branch
ErrPrefixChars == 15
ErrSepChars == 2
\* len("Error extracting PDF content: ")
PdfErrPrefixChars == 30
\* def web_crawling_tool(base_url, max_depth: int = 2, max_links_per_page: int = 20)
DefaultMaxDepth == 2
DefaultMaxLinks == 20
\* def crawl_website_wrapper(url, max_depth: int = 2, max_links_per_page: int = 20)
WrapperMaxDepth == 2
WrapperMaxLinks == 20
\* def crawl_single_url(url, max_depth: int = 1, max_links_per_page: int = 5)
\* of agents/enhanced_web_crawling_agent_old.py
SingleUrlMaxDepth == 1
SingleUrlMaxLinks == 5
\* time.sleep(1)
PauseUnits == 1

(* ------------------------------ the web -------------------------------- *)

\* URL strings; the visited set is keyed by the exact string
URLS == {"a", "b", "c"}
Seeds == {"a"}

Min(x, y) == IF x <= y THEN x ELSE y
Max(x, y) == IF x >= y THEN x ELSE y

LinkLists == UNION {[1..n -> URLS] : n \in 0..MaxPageLinks}

\* What the server answers to GET url.  ok = FALSE: requests.get or
\* raise_for_status raised (network error, non-2xx, timeout) with a message of
\* len characters.  ok = TRUE: the content-type header, the absolute http(s)
\* anchors of the body in document order, the length of the body text.
\* doc: what extract_html_content meets in the body ("titled": a title
\* element with text, "untitled": no title element, "empty_title": a title
\* element whose .string is None, "bad_href": an href urljoin rejects).
\* pdf: what extract_pdf_content meets ("readable", "fetch_failed": its own
\* GET raises, "unreadable": PdfReader raises).  meta: the names of the meta
\* elements of the body.
FailedResponses == [ok : {FALSE}, ctype : {""}, links : {<< >>},
                    len : {ShortMsg, ContentLimit}, doc : {"titled"},
                    pdf : {"readable"}, meta : {{}}]
HtmlResponses == [ok : {TRUE}, ctype : {"text/html"}, links : LinkLists,
                  len : {BodyChars}, doc : {"titled"}, pdf : {"readable"},
                  meta : {{}}]
OtherResponses == [ok : {TRUE}, ctype : {"application/pdf", "text/plain"},
                   links : {<< >>}, len : {BodyChars}, doc : {"titled"},
                   pdf : {"readable"}, meta : {{}}]
Responses == FailedResponses \cup HtmlResponses \cup OtherResponses

NoResponse == [ok |-> FALSE, ctype |-> "unserved", links |-> << >>, len |-> 0,
               doc |-> "titled", pdf |-> "readable", meta |-> {}]

\* a body longer than the report keeps
LongBody == ContentLimit + 1

MetaNames == {"description", "keywords", "author"}

\* the responses of one page in every detail: headers naming both media
\* types or none, bodies of either length, every outcome of the extraction,
\* anchors in bodies that are not HTML
HtmlPages == [ok : {TRUE}, ctype : {"text/html"}, links : LinkLists,
              len : {BodyChars, LongBody},
              doc : {"titled", "untitled", "empty_title", "bad_href"},
              pdf : {"readable"}, meta : {{}, {"description"}, MetaNames}]
PdfPages == [ok : {TRUE}, ctype : {"application/pdf", "application/pdf, text/html"},
             links : {<< >>, << "b" >>}, len : {BodyChars, LongBody},
             doc : {"titled"}, pdf : {"readable", "fetch_failed", "unreadable"},
             meta : {{}}]
TextPages == [ok : {TRUE}, ctype : {"text/plain", ""},
              links : {<< >>, << "b" >>}, len : {BodyChars, LongBody},
              doc : {"titled"}, pdf : {"readable"}, meta : {{}}]
PageResponses == FailedResponses \cup HtmlPages \cup PdfPages \cup TextPages

\* what the pages behind the seed answer in the runs that vary the seed
LeafResponses ==
    {r \in PageResponses :
        /\ r.len \in {ShortMsg, BodyChars}
        /\ r.ctype \in {"", "application/pdf", "text/plain"}
        /\ r.ok => r.links # << >>
        /\ r.pdf # "fetch_failed"}

\* 'application/pdf' in content_type, 'text/html' in content_type
HeaderHas(header, media) ==
    \/ header = media
    \/ header = "application/pdf, text/html"

(* ------------------------------ strings -------------------------------- *)

\* A string is a sequence of pieces; a piece is len characters of a text of
\* full characters (part says which text, of which URL).
Piece(part, url, n) == [part |-> part, of |-> url, len |-> n, full |-> n]

RECURSIVE StrLen(_)
StrLen(s) == IF s = << >> THEN 0 ELSE Head(s).len + StrLen(Tail(s))

\* Python s[:n] for n >= 0 on a string
RECURSIVE StrSlice(_, _)
StrSlice(s, n) ==
    IF s = << >> \/ n <= 0 THEN << >>
    ELSE IF Head(s).len <= n
         THEN << Head(s) >> \o StrSlice(Tail(s), n - Head(s).len)
         ELSE << [Head(s) EXCEPT !.len = n] >>

\* Python xs[:n] on a list, n of either sign
ListSlice(xs, n) ==
    IF n >= 0 THEN SubSeq(xs, 1, Min(n, Len(xs)))
    ELSE SubSeq(xs, 1, Max(Len(xs) + n, 0))

(* --------------------------- crawl_single_url -------------------------- *)

ErrorContent(url, r) ==
    << Piece("Error crawling ", "", ErrPrefixChars), Piece("url", url, UrlChars),
       Piece(": ", "", ErrSepChars), Piece("message", url, r.len) >>

\* the record of the except branch, lines 140-149, for a message of n characters
ErrorRecord(url, depth, n) ==
    [url |-> url, title |-> "Error", content |-> ErrorContent(url, [len |-> n]),
     metadata |-> [error |-> "message"], content_type |-> "error",
     links |-> << >>, crawl_depth |-> depth]

\* extract_pdf_content, lines 23-38: the text, or the message of its own
\* except branch
extract_pdf_content(url, r) ==
    IF r.pdf = "readable"
    THEN << Piece("pdf text", url, r.len) >>
    ELSE << Piece("Error extracting PDF content: ", "", PdfErrPrefixChars),
            Piece("message", url, ShortMsg) >>

\* the pdf branch with links=[] replaced by the anchors found in the body
PdfRecordWithAnchors(url, depth, r) ==
    [url |-> url, title |-> "PDF Document: name",
     content |-> extract_pdf_content(url, r),
     metadata |-> [content_type |-> "application/pdf"], content_type |-> "pdf",
     links |-> r.links, crawl_depth |-> depth]

\* lines 102-113
PdfRecord(url, depth, r) ==
    [url |-> url, title |-> "PDF Document: name",
     content |-> extract_pdf_content(url, r),
     metadata |-> [content_type |-> "application/pdf"], content_type |-> "pdf",
     links |-> << >>, crawl_depth |-> depth]

\* a metadata dict that holds only the meta tags the page has
HtmlMetadataSparse(r) == [k \in r.meta |-> "meta content"]

\* the metadata dict of extract_html_content, lines 65-86
HtmlMetadata(r) ==
    [description |-> IF "description" \in r.meta THEN "meta content" ELSE "",
     keywords |-> IF "keywords" \in r.meta THEN "meta content" ELSE "",
     author |-> IF "author" \in r.meta THEN "meta content" ELSE "",
     published_date |-> ""]

\* extract_html_content raises: soup.title.string.strip() on a title element
\* without a string (line 51), urljoin on an href it cannot split (line 61)
HtmlRaises(r) == r.doc \in {"empty_title", "bad_href"}

\* lines 115-126
HtmlRecord(url, depth, r) ==
    [url |-> url, title |-> IF r.doc = "titled" THEN "title text" ELSE "",
     content |-> << Piece("html text", url, r.len) >>,
     metadata |-> HtmlMetadata(r), content_type |-> "html",
     links |-> r.links, crawl_depth |-> depth]

\* lines 128-138
TextRecord(url, depth, r) ==
    [url |-> url, title |-> "Document: name",
     content |-> << Piece("body", url, r.len) >>,
     metadata |-> [content_type |-> r.ctype], content_type |-> "text",
     links |-> << >>, crawl_depth |-> depth]

\* the except branch with content = str(e)
crawl_single_url_bare_message(url, depth, r) ==
    IF ~r.ok
    THEN [ErrorRecord(url, depth, r.len) EXCEPT
              !.content = << Piece("message", url, r.len) >>]
    ELSE IF HeaderHas(r.ctype, "application/pdf") THEN PdfRecord(url, depth, r)
    ELSE IF HeaderHas(r.ctype, "text/html")
    THEN IF HtmlRaises(r) THEN ErrorRecord(url, depth, ShortMsg)
         ELSE HtmlRecord(url, depth, r)
    ELSE TextRecord(url, depth, r)

\* the body of crawl_single_url without its try/except
EscapesOnFailure(r) == ~r.ok

\* whether an exception leaves crawl_single_url on response r: the whole body
\* is inside try ... except Exception, which returns the error record
Escapes(r) == FALSE

crawl_single_url(url, depth, r) ==
    IF ~r.ok THEN ErrorRecord(url, depth, r.len)
    ELSE IF HeaderHas(r.ctype, "application/pdf") THEN PdfRecord(url, depth, r)
    ELSE IF HeaderHas(r.ctype, "text/html")
    THEN IF HtmlRaises(r) THEN ErrorRecord(url, depth, ShortMsg)
         ELSE HtmlRecord(url, depth, r)
    ELSE TextRecord(url, depth, r)

\* the GETs one call of crawl_single_url sends: line 97 with the browser
\* user-agent and, for a PDF, line 26 of extract_pdf_content without it
Requests(url, r) ==
    << [url |-> url, agent |-> TRUE] >>
    \o (IF r.ok /\ HeaderHas(r.ctype, "application/pdf")
        THEN << [url |-> url, agent |-> FALSE] >> ELSE << >>)

(* ----------------------------- entry points --------------------------- *)

\* the public functions that start a crawl; "crawl_single_url" is the
\* single-URL function of agents/enhanced_web_crawling_agent_old.py
EntryPoints == {"web_crawling_tool", "crawl_website_wrapper", "crawl_single_url"}

\* the defaults of each signature
DefaultDepthOf(entry) ==
    IF entry = "web_crawling_tool" THEN DefaultMaxDepth
    ELSE IF entry = "crawl_website_wrapper" THEN WrapperMaxDepth
    ELSE SingleUrlMaxDepth
DefaultLinksOf(entry) ==
    IF entry = "web_crawling_tool" THEN DefaultMaxLinks
    ELSE IF entry = "crawl_website_wrapper" THEN WrapperMaxLinks
    ELSE SingleUrlMaxLinks

\* crawl_website_wrapper: return web_crawling_tool(url, max_depth)
crawl_website_wrapper(url, depth, links) ==
    [base_url |-> url, max_depth |-> depth, max_links_per_page |-> DefaultMaxLinks]

\* the single-URL function: web_crawling_tool(url, max_depth, max_links_per_page)
agent_crawl_single_url(url, depth, links) ==
    [base_url |-> url, max_depth |-> depth, max_links_per_page |-> links]

\* the arguments web_crawling_tool runs with when entry is called with
\* (url, depth, links)
Passed(entry, url, depth, links) ==
    IF entry = "crawl_website_wrapper" THEN crawl_website_wrapper(url, depth, links)
    ELSE IF entry = "crawl_single_url" THEN agent_crawl_single_url(url, depth, links)
    ELSE [base_url |-> url, max_depth |-> depth, max_links_per_page |-> links]

(* --------------------------- web_crawling_tool ------------------------- *)

VARIABLES
    base_url,            \* argument
    max_depth,           \* argument
    max_links_per_page,  \* argument
    web,                 \* what the server has answered, per URL
    crawled_urls,        \* set of URL strings
    results,             \* list of page records
    urls_to_crawl,       \* list of (url, depth)
    pc,                  \* "loop": at the while test; "done": returned;
                         \* "raised": left by an exception
    report,              \* the returned document
    calls,               \* the (url, depth) arguments of crawl_single_url, in call order
    gets,                \* the HTTP GETs sent, in order
    second_run,          \* TRUE in a second call with the same arguments
    prev_pages,          \* crawled_data of the previous call
    caller,              \* the entry point called and the arguments it was given
    slept,               \* time units spent in time.sleep so far
    events               \* starts and ends of the crawl_single_url calls, each
                         \* stamped with slept

vars == << base_url, max_depth, max_links_per_page, web, crawled_urls, results,
           urls_to_crawl, pc, report, calls, gets, second_run, prev_pages,
           caller, slept, events >>

NoReport == [total_pages_crawled |-> -1, base_url |-> "", max_depth_used |-> 0,
             crawl_timestamp |-> "time.time()",
             crawled_data |-> << >>]

Params == (0 - NegParam)..MaxDepthBound
LinkParams == (0 - NegParam)..MaxLinksBound

Init ==
    /\ base_url \in Seeds
    /\ max_depth \in Params
    /\ max_links_per_page \in LinkParams
    /\ web = [u \in URLS |-> NoResponse]
    /\ crawled_urls = {}
    /\ results = << >>
    /\ urls_to_crawl = << << base_url, 0 >> >>
    /\ pc = "loop"
    /\ report = NoReport
    /\ calls = << >>
    /\ gets = << >>
    /\ second_run = FALSE
    /\ prev_pages = << >>
    /\ caller = [entry |-> "web_crawling_tool", max_depth |-> max_depth,
                 max_links_per_page |-> max_links_per_page]
    /\ slept = 0
    /\ events = << >>

current_url == Head(urls_to_crawl)[1]
current_depth == Head(urls_to_crawl)[2]

\* line 170 without the visited test
SkippedDepthOnly(url, depth) == depth > max_depth

\* line 170 without the depth test
SkippedVisitedOnly(url, depth) == url \in crawled_urls

\* the guard of line 170
Skipped(url, depth) == url \in crawled_urls \/ depth > max_depth

\* line 173 left out
VisitForgotten(visited, url) == visited

\* crawled_urls.add(current_url), line 173
Visit(visited, url) == visited \cup {url}

\* the dict of lines 179-187 with 'content': crawled_content.content
PageRecordUncut(cc) ==
    [url |-> cc.url, title |-> cc.title, content |-> cc.content,
     metadata |-> cc.metadata,
     content_type |-> cc.content_type, crawl_depth |-> cc.crawl_depth,
     links_found |-> Len(cc.links)]

\* the dict of lines 179-187 with 'links_found': len(links_to_add)
PageRecordFollowedCount(cc) ==
    [url |-> cc.url, title |-> cc.title,
     content |-> StrSlice(cc.content, ContentLimit),
     metadata |-> cc.metadata,
     content_type |-> cc.content_type, crawl_depth |-> cc.crawl_depth,
     links_found |-> Len(ListSlice(cc.links, max_links_per_page))]

\* the dict appended to results
PageRecord(cc) ==
    [url |-> cc.url, title |-> cc.title,
     content |-> StrSlice(cc.content, ContentLimit),
     metadata |-> cc.metadata,
     content_type |-> cc.content_type, crawl_depth |-> cc.crawl_depth,
     links_found |-> Len(cc.links)]

links_to_add(cc) == ListSlice(cc.links, max_links_per_page)

RECURSIVE EnqueuedReversed(_, _, _)
\* the for loop walking links_to_add from its last link to its first
EnqueuedReversed(links, visited, depth) ==
    IF links = << >> THEN << >>
    ELSE EnqueuedReversed(Tail(links), visited, depth)
         \o (IF Head(links) \notin visited
             THEN << << Head(links), depth + 1 >> >> ELSE << >>)

RECURSIVE EnqueuedUnfiltered(_, _, _)
\* the for loop of lines 193-195 without the test of line 194
EnqueuedUnfiltered(links, visited, depth) ==
    IF links = << >> THEN << >>
    ELSE << << Head(links), depth + 1 >> >>
         \o EnqueuedUnfiltered(Tail(links), visited, depth)

RECURSIVE Enqueued(_, _, _)
\* the for loop of lines 193-195 over links, given the visited set
Enqueued(links, visited, depth) ==
    IF links = << >> THEN << >>
    ELSE (IF Head(links) \notin visited
          THEN << << Head(links), depth + 1 >> >> ELSE << >>)
         \o Enqueued(Tail(links), visited, depth)

\* line 190 without the test of the depth
ChildrenAtAnyDepth(cc, visited, depth) ==
    IF cc.content_type = "html"
    THEN Enqueued(links_to_add(cc), visited, depth)
    ELSE << >>

\* lines 189-195: what one processed page appends to the frontier
Children(cc, visited, depth) ==
    IF depth < max_depth /\ cc.content_type = "html"
    THEN Enqueued(links_to_add(cc), visited, depth)
    ELSE << >>

\* insert(0, ...) in place of append: the frontier as a stack
PushFront(queue, entries) == entries \o queue

\* urls_to_crawl.append, once per entry
Push(queue, entries) == queue \o entries

\* no time.sleep at the end of the iteration
NotSlept(t) == t

\* time.sleep(1), line 198
Slept(t) == t + PauseUnits

\* one call of crawl_single_url: it starts and it returns, at clock t
FetchEvents(url, t) ==
    << [kind |-> "start", url |-> url, at |-> t],
       [kind |-> "end", url |-> url, at |-> t] >>

\* the server answers the same URL the same way every time
Served(url) == IF web[url] = NoResponse THEN Responses ELSE {web[url]}

\* lines 168-171 with urls_to_crawl[0] read in place of pop(0)
SkipWithoutPop ==
    /\ pc = "loop"
    /\ urls_to_crawl # << >>
    /\ Skipped(current_url, current_depth)
    /\ UNCHANGED vars

\* lines 168-171: pop and continue
Skip ==
    /\ pc = "loop"
    /\ urls_to_crawl # << >>
    /\ Skipped(current_url, current_depth)
    /\ urls_to_crawl' = Tail(urls_to_crawl)
    /\ UNCHANGED << base_url, max_depth, max_links_per_page, web, crawled_urls,
                    results, pc, report, calls, gets, second_run, prev_pages,
                    caller, slept, events >>

\* lines 168-198: pop, fetch, record, enqueue.  web_crawling_tool has no
\* handler of its own: an exception leaving crawl_single_url would leave it too.
Crawl ==
    /\ pc = "loop"
    /\ urls_to_crawl # << >>
    /\ ~Skipped(current_url, current_depth)
    /\ \E r \in Served(current_url) :
         /\ web' = [web EXCEPT ![current_url] = r]
         /\ LET visited == Visit(crawled_urls, current_url)
                cc == crawl_single_url(current_url, current_depth, r)
            IN /\ crawled_urls' = visited
               /\ calls' = Append(calls, << current_url, current_depth >>)
               /\ gets' = gets \o Requests(current_url, r)
               /\ events' = events \o FetchEvents(current_url, slept)
               /\ IF Escapes(r)
                  THEN /\ pc' = "raised"
                       /\ urls_to_crawl' = Tail(urls_to_crawl)
                       /\ UNCHANGED << results, slept >>
                  ELSE /\ pc' = pc
                       /\ results' = Append(results, PageRecord(cc))
                       /\ urls_to_crawl' =
                              Push(Tail(urls_to_crawl),
                                   Children(cc, visited, current_depth))
                       /\ slept' = Slept(slept)
    /\ UNCHANGED << base_url, max_depth, max_links_per_page, report,
                    second_run, prev_pages, caller >>

\* lines 167, 200-208: the frontier is empty, the document is returned
Return ==
    /\ pc = "loop"
    /\ urls_to_crawl = << >>
    /\ pc' = "done"
    /\ report' = [total_pages_crawled |-> Len(results), base_url |-> base_url,
                  max_depth_used |-> max_depth,
                  crawl_timestamp |-> "time.time()", crawled_data |-> results]
    /\ UNCHANGED << base_url, max_depth, max_links_per_page, web, crawled_urls,
                    results, urls_to_crawl, calls, gets, second_run, prev_pages,
                    caller, slept, events >>

\* the caller calls web_crawling_tool again with the same arguments
Rerun ==
    /\ pc = "done"
    /\ ~second_run
    /\ second_run' = TRUE
    /\ prev_pages' = report.crawled_data
    /\ crawled_urls' = {}
    /\ results' = << >>
    /\ urls_to_crawl' = << << base_url, 0 >> >>
    /\ pc' = "loop"
    /\ report' = NoReport
    /\ calls' = << >>
    /\ gets' = << >>
    /\ slept' = 0
    /\ events' = << >>
    /\ UNCHANGED << base_url, max_depth, max_links_per_page, web, caller >>

Next == Skip \/ Crawl \/ Return

\* one call of web_crawling_tool
Spec == Init /\ [][Next]_vars

NextTwice == Skip \/ Crawl \/ Return \/ Rerun

\* two calls with the same arguments against the same server
SpecTwice == Init /\ [][NextTwice]_vars

\* one call against a server whose answer for the seed varies in every
\* detail of a page and whose other pages all answer alike
InitPages ==
    /\ base_url \in Seeds
    /\ max_depth \in Params
    /\ max_links_per_page \in LinkParams
    /\ \E seed \in PageResponses, leaf \in LeafResponses :
         web = [u \in URLS |-> IF u = base_url THEN seed ELSE leaf]
    /\ crawled_urls = {}
    /\ results = << >>
    /\ urls_to_crawl = << << base_url, 0 >> >>
    /\ pc = "loop"
    /\ report = NoReport
    /\ calls = << >>
    /\ gets = << >>
    /\ second_run = FALSE
    /\ prev_pages = << >>
    /\ caller = [entry |-> "web_crawling_tool", max_depth |-> max_depth,
                 max_links_per_page |-> max_links_per_page]
    /\ slept = 0
    /\ events = << >>

SpecPages == InitPages /\ [][Next]_vars

\* a caller calls one of the entry points, with arguments of its choice or
\* the defaults of the signature
InitEntry ==
    /\ base_url \in Seeds
    /\ \E entry \in EntryPoints :
       \E depth \in Params \cup {DefaultDepthOf(entry)} :
       \E links \in LinkParams \cup {DefaultLinksOf(entry)} :
         /\ caller = [entry |-> entry, max_depth |-> depth,
                      max_links_per_page |-> links]
         /\ max_depth = Passed(entry, base_url, depth, links).max_depth
         /\ max_links_per_page =
                Passed(entry, base_url, depth, links).max_links_per_page
    /\ web = [u \in URLS |-> NoResponse]
    /\ crawled_urls = {}
    /\ results = << >>
    /\ urls_to_crawl = << << base_url, 0 >> >>
    /\ pc = "loop"
    /\ report = NoReport
    /\ calls = << >>
    /\ gets = << >>
    /\ second_run = FALSE
    /\ prev_pages = << >>
    /\ slept = 0
    /\ events = << >>

SpecEntry == InitEntry /\ [][Next]_vars

\* each fetch returns (the 30 s timeout) and the loop is the only thread
FairSpec == Spec /\ WF_vars(Skip) /\ WF_vars(Crawl) /\ WF_vars(Return)

(* ------------------------------- claims -------------------------------- *)

Range(f) == {f[i] : i \in DOMAIN f}
Last(q) == q[Len(q)]

\* no two places of a list of page records hold the same URL
DistinctUrls(pages) ==
    \A i, j \in DOMAIN pages : pages[i].url = pages[j].url => i = j

\* C1: no URL appears in more than one page record of the run or of the
\* returned report, and crawl_single_url is called at most once per URL
\* string, whatever the link graph.
C1_VisitedOnce ==
    /\ DistinctUrls(results)
    /\ \A i, j \in DOMAIN calls : calls[i][1] = calls[j][1] => i = j
    /\ pc = "done" => DistinctUrls(report.crawled_data)

\* a returned report of a run where a URL stood twice in the frontier before
\* it was fetched, and where it is linked from two recorded pages
C1_Witness ==
    /\ pc = "done"
    /\ max_links_per_page >= 2
    /\ \E u \in URLS :
         /\ \E i \in DOMAIN results : results[i].url = u /\ results[i].crawl_depth = 2
         /\ \E i, j \in DOMAIN results :
              /\ i # j
              /\ results[i].content_type = "html" /\ results[j].content_type = "html"
              /\ u \in Range(web[results[i].url].links)
              /\ u \in Range(web[results[j].url].links)
         /\ \E i \in DOMAIN results :
              /\ results[i].crawl_depth = 1
              /\ web[results[i].url].links = << u, u >>

\* C2: crawl_single_url is only ever called with a depth <= max_depth, so
\* every page record has crawl_depth <= max_depth.
C2_DepthBound ==
    /\ \A i \in DOMAIN calls : calls[i][2] <= max_depth
    /\ \A i \in DOMAIN results : results[i].crawl_depth <= max_depth
    /\ pc = "done" =>
         \A i \in DOMAIN report.crawled_data :
             report.crawled_data[i].crawl_depth <= max_depth

\* a returned report with an HTML page at depth max_depth >= 1 whose links
\* lead to a URL that was never fetched
C2_Witness ==
    /\ pc = "done"
    /\ max_depth >= 1
    /\ \E i \in DOMAIN results :
         /\ results[i].crawl_depth = max_depth
         /\ results[i].content_type = "html"
         /\ \E u \in Range(web[results[i].url].links) : u \notin crawled_urls

\* the step records a page (lines 173-198 ran)
Recorded == Len(results') = Len(results) + 1

\* the number of frontier entries the step appended for the page it recorded
Appended == Len(urls_to_crawl') - (Len(urls_to_crawl) - 1)

\* C3: a step that processes an HTML page at a depth below max_depth
\* appends at most max_links_per_page entries to the frontier.
C3_FanOut ==
    [][(Recorded /\ Last(results').content_type = "html"
                 /\ Last(results').crawl_depth < max_depth)
        => Appended <= max_links_per_page]_vars

\* the same bound when max_links_per_page is not negative: the cap is per
\* page, and the frontier may hold more entries than the cap
FanOutOfValidCap ==
    [][(Recorded /\ max_links_per_page >= 0)
        => Appended <= max_links_per_page]_vars

FrontierAboveCap ==
    max_links_per_page >= 1 /\ Len(urls_to_crawl) > max_links_per_page

\* C7: with a negative max_depth or max_links_per_page the run does not
\* start: crawl_single_url is never called and no report is returned.
C7_ConfigurationError ==
    (max_depth < 0 \/ max_links_per_page < 0) => (calls = << >> /\ pc # "done")

\* the most frontier entries that can descend from one entry of depth d:
\* itself, and for each of at most MaxPageLinks links an entry of depth d + 1
RECURSIVE Weight(_)
Weight(d) ==
    IF d >= max_depth THEN 1 ELSE 1 + MaxPageLinks * Weight(d + 1)

RECURSIVE FrontierWeight(_)
FrontierWeight(q) ==
    IF q = << >> THEN 0 ELSE Weight(Head(q)[2]) + FrontierWeight(Tail(q))

\* C4: for every max_depth, max_links_per_page and link graph, cycles and a
\* self-linking seed included, the run returns a report; every iteration
\* of the loop strictly drains the frontier's weight.
C4_Terminates ==
    /\ <>(pc = "done")
    /\ [][pc' = "loop" => FrontierWeight(urls_to_crawl') < FrontierWeight(urls_to_crawl)]_vars

\* a report returned from a graph where the seed links to itself and a
\* page of depth 1 links back to the seed
C4_Witness ==
    /\ pc = "done"
    /\ report.total_pages_crawled >= 2
    /\ base_url \in Range(web[base_url].links)
    /\ \E i \in DOMAIN results :
         /\ results[i].crawl_depth = 1
         /\ base_url \in Range(web[results[i].url].links)

\* the step called crawl_single_url on a URL whose fetch failed
FetchFailed == Len(calls') = Len(calls) + 1 /\ ~web'[current_url].ok

\* the URLs fetched so far whose fetch failed
FailedUrls == {u \in crawled_urls : ~web[u].ok}

Embeds(s, part, u) ==
    \E i \in DOMAIN s : s[i].part = part /\ s[i].of = u /\ s[i].len = s[i].full

\* web_crawling_tool returned and the fetch of the seed had failed
SeedFailed == pc = "done" /\ base_url \in crawled_urls /\ ~web[base_url].ok

\* the one page of the report is the seed's error record
SeedErrorPage ==
    /\ report.total_pages_crawled = 1
    /\ Len(report.crawled_data) = 1
    /\ report.crawled_data[1].url = base_url
    /\ report.crawled_data[1].content_type = "error"
    /\ report.crawled_data[1].crawl_depth = 0
    /\ report.crawled_data[1].links_found = 0
    /\ StrLen(report.crawled_data[1].content) > 0

\* C6 as stated: when the fetch of the seed fails the run does not raise and
\* the report holds exactly one page, the seed's error record at depth 0 with
\* no links, whose content embeds the seed URL and the error message.
C6_SeedFailure ==
    /\ pc # "raised"
    /\ SeedFailed =>
         /\ SeedErrorPage
         /\ Embeds(report.crawled_data[1].content, "url", base_url)
         /\ Embeds(report.crawled_data[1].content, "message", base_url)

\* "Error crawling <seed>: <message>" for the message the seed's fetch raised
SeedErrorText ==
    << [part |-> "Error crawling ", of |-> "", len |-> ErrPrefixChars,
        full |-> ErrPrefixChars],
       [part |-> "url", of |-> base_url, len |-> UrlChars, full |-> UrlChars],
       [part |-> ": ", of |-> "", len |-> ErrSepChars, full |-> ErrSepChars],
       [part |-> "message", of |-> base_url, len |-> web[base_url].len,
        full |-> web[base_url].len] >>

\* s is the first n characters of t
IsFirstChars(s, t, n) ==
    /\ StrLen(s) = Min(n, StrLen(t))
    /\ Len(s) <= Len(t)
    /\ \A i \in DOMAIN s :
         /\ s[i].part = t[i].part /\ s[i].of = t[i].of /\ s[i].full = t[i].full
         /\ s[i].len <= t[i].len
         /\ i < Len(s) => s[i].len = t[i].len

\* C6 as amended: the content is the first 5000 characters of
\* "Error crawling <seed>: <message>"; it embeds the seed URL and the
\* message whenever that text has at most 5000 characters.
C6_SeedFailureTruncated ==
    /\ pc # "raised"
    /\ SeedFailed =>
         /\ SeedErrorPage
         /\ IsFirstChars(report.crawled_data[1].content, SeedErrorText, ContentLimit)
         /\ StrLen(SeedErrorText) <= ContentLimit =>
              /\ Embeds(report.crawled_data[1].content, "url", base_url)
              /\ Embeds(report.crawled_data[1].content, "message", base_url)

\* a report on a seed whose fetch failed with a message that fits, with
\* arguments that would have let links be followed
C6_Witness ==
    /\ SeedFailed
    /\ max_depth >= 1 /\ max_links_per_page >= 1
    /\ web[base_url].len < ContentLimit
    /\ Embeds(report.crawled_data[1].content, "message", base_url)

\* the depths of a list of page records never decrease
DepthsAscend(pages) ==
    \A i, j \in DOMAIN pages :
        i < j => pages[i].crawl_depth <= pages[j].crawl_depth

\* C8: pages are recorded in breadth-first order: crawl_depth never
\* decreases along results or along the report, the frontier's depths never
\* decrease from head to tail, and no queued entry is shallower than a
\* recorded page.
C8_BreadthFirst ==
    /\ DepthsAscend(results)
    /\ \A i, j \in DOMAIN urls_to_crawl :
         i < j => urls_to_crawl[i][2] <= urls_to_crawl[j][2]
    /\ \A i \in DOMAIN results : \A j \in DOMAIN urls_to_crawl :
         results[i].crawl_depth <= urls_to_crawl[j][2]
    /\ pc = "done" => DepthsAscend(report.crawled_data)

\* a report with two pages of depth 1 whose first links to the second, so
\* that the second also stood in the frontier at depth 2
C8_Witness ==
    /\ pc = "done"
    /\ report.total_pages_crawled = 3
    /\ report.crawled_data[2].crawl_depth = 1
    /\ report.crawled_data[3].crawl_depth = 1
    /\ max_depth >= 2 /\ max_links_per_page >= 1
    /\ report.crawled_data[2].content_type = "html"
    /\ report.crawled_data[3].url \in Range(web[report.crawled_data[2].url].links)

\* the (url, depth) pairs of a list of page records
UrlsAndDepths(pages) ==
    [i \in DOMAIN pages |-> << pages[i].url, pages[i].crawl_depth >>]

\* the links the recorded page j had followed, in the order of its link list
Followed(j) ==
    IF results[j].content_type = "html" /\ results[j].crawl_depth < max_depth
    THEN ListSlice(web[results[j].url].links, max_links_per_page)
    ELSE << >>

\* where page i was linked from the level above: the places (page j, link k)
\* numbered in the order of the pages and of their link lists
Sources(i) ==
    UNION {LET links == Followed(j)
           IN {j * (MaxPageLinks + 1) + k :
                   k \in {n \in DOMAIN links : links[n] = results[i].url}} :
           j \in {m \in DOMAIN results :
                     results[m].crawl_depth + 1 = results[i].crawl_depth}}

Least(S) == CHOOSE x \in S : \A y \in S : x <= y

\* C9: the pages are recorded in the order their frontier entries were
\* dequeued; within a depth level they follow the order of the pages of the
\* level above and of the links in those pages' link lists; a second run
\* with the same arguments against the same responses reports the same
\* sequence of URLs and depths.
C9_Deterministic ==
    /\ UrlsAndDepths(results) = calls
    /\ \A i \in DOMAIN results :
         results[i].crawl_depth >= 1 => Sources(i) # {}
    /\ \A i, j \in DOMAIN results :
         (i < j /\ results[i].crawl_depth = results[j].crawl_depth
                /\ results[i].crawl_depth >= 1)
         => Least(Sources(i)) < Least(Sources(j))
    /\ pc = "done" => report.crawled_data = results
    /\ (second_run /\ pc = "done")
         => UrlsAndDepths(report.crawled_data) = UrlsAndDepths(prev_pages)

\* the report of a second run with two pages of depth 1, in the order of
\* the seed's two distinct links
C9_Witness ==
    /\ second_run /\ pc = "done"
    /\ report.total_pages_crawled = 3
    /\ prev_pages # << >>
    /\ Len(web[base_url].links) = 2
    /\ report.crawled_data[2].url = web[base_url].links[1]
    /\ report.crawled_data[3].url = web[base_url].links[2]
    /\ report.crawled_data[3].crawl_depth = 1

\* the first n links of a link list
FirstLinks(links, n) == SubSeq(links, 1, Min(Max(n, 0), Len(links)))

\* the URLs one eligible link away from u: the first max_links_per_page links
\* of u when u was fetched as an HTML page
EligibleFrom(u) ==
    IF \E i \in DOMAIN results :
           results[i].url = u /\ results[i].content_type = "html"
    THEN Range(FirstLinks(web[u].links, max_links_per_page))
    ELSE {}

\* the URLs at most k eligible links away from the seed
RECURSIVE Within(_)
Within(k) ==
    IF k = 0 THEN {base_url}
    ELSE LET W == Within(k - 1) IN W \cup UNION {EligibleFrom(u) : u \in W}

\* every recorded depth is the length of the shortest eligible path
DepthsAreDistances ==
    \A i \in DOMAIN results :
        /\ results[i].url \in Within(results[i].crawl_depth)
        /\ results[i].crawl_depth >= 1 =>
             results[i].url \notin Within(results[i].crawl_depth - 1)

\* C10: the crawl_depth of every page record is its breadth-first distance
\* from the seed over the first max_links_per_page links of each page
\* fetched as HTML; the seed has depth 0.
C10_DepthIsDistance ==
    /\ results # << >> => results[1].url = base_url /\ results[1].crawl_depth = 0
    /\ DepthsAreDistances

\* the same equality when max_links_per_page is not negative
DistanceOfValidCap ==
    max_links_per_page >= 0 => C10_DepthIsDistance

\* a recorded page of depth 1 that is also linked from a page of depth 1
ShortestOfTwoPaths ==
    /\ pc = "done" /\ max_links_per_page >= 0 /\ max_depth >= 2
    /\ \E i, j \in DOMAIN results :
         /\ i # j
         /\ results[i].crawl_depth = 1 /\ results[j].crawl_depth = 1
         /\ results[j].url \in EligibleFrom(results[i].url)

\* C11: the content of every page record, of the run and of the report, has
\* at most 5000 characters, whatever the media type and however long the
\* fetched body or the error message.
C11_ContentTruncated ==
    /\ \A i \in DOMAIN results : StrLen(results[i].content) <= ContentLimit
    /\ pc = "done" =>
         \A i \in DOMAIN report.crawled_data :
             StrLen(report.crawled_data[i].content) <= ContentLimit

\* a report whose seed page was served with a body longer than 5000
\* characters and holds exactly 5000 of them
C11_Witness ==
    /\ pc = "done"
    /\ web[base_url].ok
    /\ web[base_url].len = LongBody
    /\ report.total_pages_crawled >= 1
    /\ StrLen(report.crawled_data[1].content) = ContentLimit
    /\ report.crawled_data[1].content_type \in {"html", "pdf", "text"}

\* the run returned with max_depth = 1 from a seed fetched as HTML whose
\* links are pairwise distinct and differ from the seed
TwoLevels ==
    /\ pc = "done"
    /\ max_depth = 1
    /\ results # << >>
    /\ results[1].content_type = "html"
    /\ LET links == web[base_url].links
       IN /\ base_url \notin Range(links)
          /\ \A i, j \in DOMAIN links : links[i] = links[j] => i = j

\* the report holds the seed and then the first min(k, max_links_per_page)
\* of the seed's k links at depth 1, and no link beyond them was fetched
SeedThenFirstLinks ==
    LET links == web[base_url].links
        n == Min(Len(links), max_links_per_page)
        pages == report.crawled_data
    IN /\ Len(pages) = 1 + n
       /\ pages[1].url = base_url /\ pages[1].crawl_depth = 0
       /\ \A i \in 1..n :
            pages[i + 1].url = links[i] /\ pages[i + 1].crawl_depth = 1
       /\ \A i \in DOMAIN links : i > n => links[i] \notin crawled_urls

\* C12: with max_depth = 1 and a seed HTML page of k pairwise distinct
\* links other than the seed, the report has exactly
\* 1 + min(k, max_links_per_page) pages: the seed, then the first links in
\* list order at depth 1; the links beyond the cap are never fetched.
C12_TwoLevelFanOut == TwoLevels => SeedThenFirstLinks

\* the same count when max_links_per_page is not negative
TwoLevelsOfValidCap ==
    (TwoLevels /\ max_links_per_page >= 0) => SeedThenFirstLinks

\* a seed of two links under a cap of one: two pages, the second link unfetched
TwoLevelsCapped ==
    /\ TwoLevels /\ max_links_per_page = 1 /\ Len(web[base_url].links) = 2
    /\ report.total_pages_crawled = 2

\* C13: when the seed HTML page's only link is the seed itself and
\* max_depth = 1, the report has exactly one page, the seed at depth 0, and
\* the seed is fetched exactly once.
C13_SelfLink ==
    (/\ pc = "done"
     /\ max_depth = 1
     /\ results # << >>
     /\ results[1].content_type = "html"
     /\ web[base_url].links = << base_url >>)
    => /\ report.total_pages_crawled = 1
       /\ Len(report.crawled_data) = 1
       /\ report.crawled_data[1].url = base_url
       /\ report.crawled_data[1].crawl_depth = 0
       /\ calls = << << base_url, 0 >> >>

\* such a report, under a cap that lets the self-link be followed
C13_Witness ==
    /\ pc = "done"
    /\ max_depth = 1
    /\ max_links_per_page >= 1
    /\ report.total_pages_crawled = 1
    /\ report.crawled_data[1].content_type = "html"
    /\ web[base_url].links = << base_url >>

\* the media types whose records carry no links
Linkless == {"pdf", "text", "error"}

\* C14: a page recorded as PDF, plain text or error has links_found = 0 and
\* the step that records it appends nothing to the frontier, at any depth;
\* a run on a seed served as application/pdf with max_depth = 0 returns
\* exactly one page, of content_type 'pdf'.
C14_LinklessMedia ==
    /\ [](\A i \in DOMAIN results :
             results[i].content_type \in Linkless => results[i].links_found = 0)
    /\ [][(Recorded /\ Last(results').content_type \in Linkless)
           => (Appended = 0 /\ urls_to_crawl' = Tail(urls_to_crawl))]_vars
    /\ []((/\ pc = "done" /\ max_depth = 0
           /\ web[base_url].ok
           /\ HeaderHas(web[base_url].ctype, "application/pdf"))
          => /\ report.total_pages_crawled = 1
             /\ Len(report.crawled_data) = 1
             /\ report.crawled_data[1].content_type = "pdf")

\* a report of one 'pdf' page from a seed whose body holds an anchor, under a
\* depth and a cap that would have let an HTML page's anchor be followed
C14_Witness ==
    /\ pc = "done"
    /\ max_depth >= 1 /\ max_links_per_page >= 1
    /\ web[base_url].ok
    /\ web[base_url].ctype = "application/pdf"
    /\ web[base_url].links = << "b" >>
    /\ report.total_pages_crawled = 1
    /\ report.crawled_data[1].content_type = "pdf"
    /\ report.crawled_data[1].links_found = 0
    /\ "b" \notin crawled_urls

\* C15: a seed served as an HTML page without anchors gives, for every
\* max_depth >= 0, a report of exactly one page, of crawl_depth 0 and
\* links_found 0; the links_found of every HTML page is the number of links
\* extracted from it, whatever number of them was enqueued.
C15_LinkCount ==
    /\ \A i \in DOMAIN results :
          results[i].content_type = "html"
              => results[i].links_found = Len(web[results[i].url].links)
    /\ (/\ pc = "done" /\ max_depth >= 0
        /\ web[base_url].ok /\ web[base_url].ctype = "text/html"
        /\ web[base_url].links = << >>)
       => /\ report.total_pages_crawled = 1
          /\ Len(report.crawled_data) = 1
          /\ report.crawled_data[1].url = base_url
          /\ report.crawled_data[1].crawl_depth = 0
          /\ report.crawled_data[1].links_found = 0

\* the report of an anchorless HTML seed crawled with max_depth = 2
C15_Witness ==
    /\ pc = "done" /\ max_depth = 2 /\ max_links_per_page >= 1
    /\ web[base_url].ok /\ web[base_url].ctype = "text/html"
    /\ web[base_url].links = << >>
    /\ report.total_pages_crawled = 1
    /\ report.crawled_data[1].links_found = 0

\* a page of two extracted links of which one was enqueued
CountAboveEnqueued ==
    /\ pc = "done" /\ max_links_per_page = 1 /\ max_depth >= 1
    /\ report.crawled_data[1].links_found = 2
    /\ report.total_pages_crawled = 2

RECURSIVE Power(_, _)
Power(b, e) == IF e <= 0 THEN 1 ELSE b * Power(b, e - 1)

\* sum of cap^i for i in 0..depth
RECURSIVE TreeSize(_, _)
TreeSize(cap, depth) ==
    IF depth < 0 THEN 0 ELSE Power(cap, depth) + TreeSize(cap, depth - 1)

PagesAt(pages, d) == Cardinality({i \in DOMAIN pages : pages[i].crawl_depth = d})

\* the pages fit the tree of fan-out max_links_per_page and height max_depth
WithinTree(pages) ==
    /\ Len(pages) <= TreeSize(max_links_per_page, max_depth)
    /\ \A d \in 0..max_depth :
          PagesAt(pages, d) <= Power(max_links_per_page, d)

\* C16: the number of pages of a report is at most the sum over
\* i in 0..max_depth of max_links_per_page^i, and the number of pages of
\* depth d is at most max_links_per_page^d, for every link graph.
C16_TreeBound == pc = "done" => WithinTree(report.crawled_data)

\* the same bounds when max_links_per_page is not negative, at every point
\* of the run
TreeBoundOfValidCap ==
    max_links_per_page >= 0
        => /\ WithinTree(results)
           /\ pc = "done" => WithinTree(report.crawled_data)

\* a report that fills the tree of fan-out 1 and height 2 from a seed of two
\* links
TreeFilled ==
    /\ pc = "done" /\ max_links_per_page = 1 /\ max_depth = 2
    /\ Len(web[base_url].links) = 2
    /\ web[base_url].links[1] # web[base_url].links[2]
    /\ report.total_pages_crawled = 3
    /\ PagesAt(report.crawled_data, 1) = 1

\* the GETs sent to url so far
GetsTo(url) == {i \in DOMAIN gets : gets[i].url = url}

\* C17: every call of crawl_single_url sends exactly one GET, to its URL and
\* with the browser user-agent header, whatever the media type of the
\* response, PDF included; no URL receives more than one request in a run.
C17_SingleGet ==
    /\ Len(gets) = Len(calls)
    /\ \A i \in DOMAIN gets : gets[i].agent
    /\ \A i \in DOMAIN gets : i <= Len(calls) => gets[i].url = calls[i][1]
    /\ \A u \in URLS : Cardinality(GetsTo(u)) <= 1

\* every URL fetched gets one GET with the user-agent header, and one more
\* without it exactly when it answered with a PDF header
GetsPerResponse ==
    \A u \in URLS :
        LET sent == GetsTo(u)
            pdf == web[u].ok /\ HeaderHas(web[u].ctype, "application/pdf")
        IN /\ u \notin crawled_urls => sent = {}
           /\ u \in crawled_urls =>
                /\ Cardinality({i \in sent : gets[i].agent}) = 1
                /\ Cardinality({i \in sent : ~gets[i].agent}) = IF pdf THEN 1 ELSE 0

\* a report of a run that fetched a PDF and an HTML page
PdfFetchedTwice ==
    /\ pc = "done"
    /\ \E i, j \in DOMAIN results :
         /\ results[i].content_type = "pdf" /\ results[j].content_type = "html"
         /\ Cardinality(GetsTo(results[i].url)) = 2
         /\ Cardinality(GetsTo(results[j].url)) = 1

\* the response was received and its extraction failed
PdfExtractionFailed(r) ==
    r.ok /\ HeaderHas(r.ctype, "application/pdf") /\ r.pdf # "readable"
HtmlExtractionFailed(r) ==
    /\ r.ok /\ ~HeaderHas(r.ctype, "application/pdf")
    /\ HeaderHas(r.ctype, "text/html") /\ HtmlRaises(r)

\* the page is an error record whose content holds the whole failure message
IsErrorPage(page) ==
    /\ page.content_type = "error"
    /\ page.links_found = 0
    /\ Embeds(page.content, "message", page.url)

\* C18: whenever the extraction of a fetched page fails (malformed HTML,
\* unreadable PDF, failure while obtaining the PDF bytes) the page record is
\* of type 'error', embeds the failure message and has no links; no record
\* of type pdf, html or text results from a failed extraction.
C18_ExtractionFailure ==
    \A i \in DOMAIN results :
        LET r == web[results[i].url]
        IN (PdfExtractionFailed(r) \/ HtmlExtractionFailed(r))
               => IsErrorPage(results[i])

\* a failed HTML extraction gives an error record; a failed PDF extraction
\* gives a 'pdf' record whose content is the message of extract_pdf_content
FailureByMedia ==
    \A i \in DOMAIN results :
        LET r == web[results[i].url]
        IN /\ HtmlExtractionFailed(r) => IsErrorPage(results[i])
           /\ PdfExtractionFailed(r) =>
                /\ results[i].content_type = "pdf"
                /\ results[i].links_found = 0
                /\ results[i].content[1].part = "Error extracting PDF content: "
                /\ Embeds(results[i].content, "message", results[i].url)

\* a report whose seed is an unreadable PDF recorded with type 'pdf'
UnreadablePdfAsPdf ==
    /\ pc = "done"
    /\ web[base_url].pdf = "unreadable"
    /\ web[base_url].ok /\ web[base_url].ctype = "application/pdf"
    /\ report.total_pages_crawled = 1
    /\ report.crawled_data[1].content_type = "pdf"

\* a report whose seed is an HTML page with an empty title, recorded as error
EmptyTitleAsError ==
    /\ pc = "done"
    /\ web[base_url].ok /\ web[base_url].ctype = "text/html"
    /\ web[base_url].doc = "empty_title"
    /\ web[base_url].links # << >>
    /\ report.total_pages_crawled = 1
    /\ report.crawled_data[1].content_type = "error"

\* the metadata holds the three keys
HasMetaKeys(page) == MetaNames \subseteq DOMAIN page.metadata

\* C19 as stated: the metadata of every page record of a report holds the
\* keys description, keywords and author, for every media type.
C19_MetadataKeys ==
    pc = "done" =>
        \A i \in DOMAIN report.crawled_data : HasMetaKeys(report.crawled_data[i])

\* C19 amended: the metadata of every HTML page record holds description,
\* keywords and author (and published_date), each the empty string when the
\* page has no such meta tag; the metadata of a PDF or text record holds
\* only content_type and that of an error record only error.
C19_MetadataByMedia ==
    pc = "done" =>
        \A i \in DOMAIN report.crawled_data :
            LET page == report.crawled_data[i]
                r == web[page.url]
            IN /\ page.content_type = "html" =>
                    /\ DOMAIN page.metadata = MetaNames \cup {"published_date"}
                    /\ \A k \in MetaNames :
                          page.metadata[k] = IF k \in r.meta THEN "meta content" ELSE ""
                    /\ page.metadata["published_date"] = ""
               /\ page.content_type \in {"pdf", "text"} =>
                    DOMAIN page.metadata = {"content_type"}
               /\ page.content_type = "error" => DOMAIN page.metadata = {"error"}

\* a report with an HTML page that has a description tag and no keywords
\* tag, and a page that is not HTML
C19_Witness ==
    /\ pc = "done"
    /\ report.total_pages_crawled >= 2
    /\ report.crawled_data[1].content_type = "html"
    /\ web[base_url].meta = {"description"}
    /\ report.crawled_data[1].metadata["description"] = "meta content"
    /\ report.crawled_data[1].metadata["keywords"] = ""
    /\ report.crawled_data[2].content_type \in {"pdf", "text"}

MediaTypes == {"html", "pdf", "text", "error"}

\* the media type the Content-Type header of a received response names
TypeOfHeader(r) ==
    IF HeaderHas(r.ctype, "application/pdf") THEN "pdf"
    ELSE IF HeaderHas(r.ctype, "text/html") THEN "html"
    ELSE "text"

\* C20: the media type of every page follows from the Content-Type header
\* alone: 'application/pdf' in it gives pdf, otherwise 'text/html' in it
\* gives html, any other or missing header gives text with the response
\* body as content; a failed request gives error; every page has exactly
\* one of the four types.
C20_DispatchByHeader ==
    \A i \in DOMAIN results :
        LET page == results[i]
            r == web[page.url]
        IN /\ page.content_type \in MediaTypes
           /\ ~r.ok => page.content_type = "error"
           /\ r.ok => page.content_type = TypeOfHeader(r)
           /\ (r.ok /\ TypeOfHeader(r) = "text") =>
                 \A k \in DOMAIN page.content : page.content[k].part = "body"

\* the same dispatch, with a text/html page recorded as html when
\* extract_html_content returns and as error when it raises
DispatchUnlessRaised ==
    \A i \in DOMAIN results :
        LET page == results[i]
            r == web[page.url]
        IN /\ page.content_type \in MediaTypes
           /\ ~r.ok => page.content_type = "error"
           /\ r.ok =>
                page.content_type =
                    IF TypeOfHeader(r) = "html" /\ HtmlRaises(r) THEN "error"
                    ELSE TypeOfHeader(r)
           /\ (r.ok /\ TypeOfHeader(r) = "text") =>
                 \A k \in DOMAIN page.content : page.content[k].part = "body"

\* a report whose seed answered with a header naming both media types and
\* was recorded as pdf
BothNamedAsPdf ==
    /\ pc = "done"
    /\ report.total_pages_crawled >= 1
    /\ web[base_url].ok /\ web[base_url].ctype = "application/pdf, text/html"
    /\ report.crawled_data[1].content_type = "pdf"

\* a report with a page served without a Content-Type header, recorded as text
NoHeaderAsText ==
    /\ pc = "done"
    /\ \E i \in DOMAIN results :
         /\ web[results[i].url].ok /\ web[results[i].url].ctype = ""
         /\ results[i].content_type = "text"

\* C21: whichever entry point is called (web_crawling_tool,
\* crawl_website_wrapper, the single-URL function), the run's depth limit is
\* the caller's max_depth and the cap applied to each page's links is the
\* caller's max_links_per_page, the defaults of the signature when omitted.
C21_CallerLimits ==
    /\ [](max_depth = caller.max_depth)
    /\ [](max_links_per_page = caller.max_links_per_page)
    /\ [][(Recorded /\ caller.max_links_per_page >= 0)
           => Appended <= caller.max_links_per_page]_vars

\* the depth limit is the caller's for every entry point, the cap is the
\* caller's for web_crawling_tool and the single-URL function, and it is
\* web_crawling_tool's default for crawl_website_wrapper
LimitsByEntry ==
    /\ max_depth = caller.max_depth
    /\ caller.entry # "crawl_website_wrapper"
           => max_links_per_page = caller.max_links_per_page
    /\ caller.entry = "crawl_website_wrapper"
           => max_links_per_page = DefaultMaxLinks

\* a report of three pages from crawl_website_wrapper called with
\* max_depth = 1 and max_links_per_page = 1
WrapperDropsCap ==
    /\ pc = "done"
    /\ caller.entry = "crawl_website_wrapper"
    /\ caller.max_depth = 1 /\ caller.max_links_per_page = 1
    /\ report.total_pages_crawled = 3
    /\ report.crawled_data[3].crawl_depth = 1

\* the keys of the returned document that carry something else than the cap
SummaryKeys == {"total_pages_crawled", "base_url", "max_depth_used",
                "crawl_timestamp", "crawled_data"}

\* the report carries the seed, the depth limit, the pages and their number
EchoesSeedDepthPages ==
    /\ report.base_url = base_url
    /\ report.max_depth_used = max_depth
    /\ report.crawled_data = results
    /\ report.total_pages_crawled = Len(report.crawled_data)

\* C22: the returned report carries the seed URL, max_depth and
\* max_links_per_page as passed by the caller, and the accumulated pages
\* with a count equal to their number.
C22_EchoesInputs ==
    pc = "done" =>
        /\ EchoesSeedDepthPages
        /\ \E k \in DOMAIN report \ SummaryKeys : report[k] = max_links_per_page

\* the report carries the seed, max_depth, the pages and their count, and
\* has no further key
EchoesAllButCap ==
    pc = "done" => (EchoesSeedDepthPages /\ DOMAIN report = SummaryKeys)

\* a report of two pages of a run with a cap of 1
ReportOfCappedRun ==
    /\ pc = "done" /\ max_links_per_page = 1 /\ max_depth = 1
    /\ report.total_pages_crawled = 2

\* the calls of crawl_single_url in events: the k-th starts at 2k-1, ends at 2k
Fetches == 1..(Len(events) \div 2)

\* no call starts before the one before it has returned
OneAtATime ==
    /\ Len(events) % 2 = 0
    /\ \A k \in Fetches :
         /\ events[2 * k - 1].kind = "start"
         /\ events[2 * k].kind = "end"
         /\ events[2 * k].url = events[2 * k - 1].url

\* the step discards the head of the frontier without fetching it
Discarded ==
    /\ urls_to_crawl # << >>
    /\ urls_to_crawl' = Tail(urls_to_crawl)
    /\ results' = results
    /\ calls' = calls

\* C23: the fetches of a run never overlap; between the end of a fetch and
\* the start of the next one the run sleeps exactly once, for 1 time unit;
\* discarding a frontier entry without fetching it adds no sleep.
C23_Paced ==
    /\ []OneAtATime
    /\ [](\A k \in Fetches :
             k > 1 => events[2 * k - 1].at - events[2 * k - 2].at = 1)
    /\ [][Discarded => slept' = slept]_vars

\* a report of a run that fetched b, discarded a second frontier entry for
\* b and went on to fetch c one time unit after b
C23_Witness ==
    /\ pc = "done"
    /\ web[base_url].links = << "b", "b" >>
    /\ max_links_per_page = 2
    /\ Len(events) = 6
    /\ events[3].url = "b" /\ events[5].url = "c"
    /\ events[4].at = 1 /\ events[5].at = 2

\* the step records an HTML page of a depth below max_depth
RecordedInnerHtml ==
    /\ Recorded
    /\ Last(results').content_type = "html"
    /\ Last(results').crawl_depth < max_depth

\* the frontier entries the step appended
NewEntries ==
    SubSeq(urls_to_crawl', Len(urls_to_crawl), Len(urls_to_crawl'))

\* each link of a list paired with a depth
AtDepth(links, d) == [i \in DOMAIN links |-> << links[i], d >>]

HtmlServed(r) ==
    /\ r.ok
    /\ HeaderHas(r.ctype, "text/html") /\ ~HeaderHas(r.ctype, "application/pdf")
    /\ r.doc # "bad_href"

\* the record is the HTML record of the page, with its links counted
IsHtmlPageOf(page, r) ==
    /\ page.content_type = "html"
    /\ page.title = IF r.doc = "titled" THEN "title text" ELSE ""
    /\ page.links_found = Len(r.links)

\* C25: a page received with Content-Type text/html is recorded with media
\* type html and the text of its title element as title, the empty string
\* when it has no title element or the element has no text; an absent or
\* empty title neither makes it an error record nor stops its links from
\* being followed.
C25_TitleOrEmpty ==
    /\ [](\A i \in DOMAIN results :
             HtmlServed(web[results[i].url])
                 => IsHtmlPageOf(results[i], web[results[i].url]))
    /\ [][(Recorded /\ HtmlServed(web'[Last(results').url])
                    /\ Last(results').crawl_depth < max_depth
                    /\ \E l \in Range(FirstLinks(web'[Last(results').url].links,
                                                 max_links_per_page)) :
                           l \notin crawled_urls')
           => Appended >= 1]_vars

\* the same for pages with a title element that has text or with no title
\* element; a title element without text gives the error record
TitleByDocument ==
    \A i \in DOMAIN results :
        LET r == web[results[i].url]
        IN /\ (HtmlServed(r) /\ r.doc # "empty_title") => IsHtmlPageOf(results[i], r)
           /\ (HtmlServed(r) /\ r.doc = "empty_title") =>
                 /\ results[i].content_type = "error"
                 /\ results[i].title = "Error"
                 /\ results[i].links_found = 0

\* a report whose seed has no title element and whose link was followed
UntitledFollowed ==
    /\ pc = "done"
    /\ web[base_url].ok /\ web[base_url].ctype = "text/html"
    /\ web[base_url].doc = "untitled"
    /\ report.total_pages_crawled = 2
    /\ report.crawled_data[1].title = ""
    /\ report.crawled_data[1].content_type = "html"

\* a report of one page from a seed with an empty title element and a link,
\* under limits that would have let the link be followed
EmptyTitleUnfollowed ==
    /\ pc = "done" /\ max_depth >= 1 /\ max_links_per_page >= 1
    /\ web[base_url].ok /\ web[base_url].ctype = "text/html"
    /\ web[base_url].doc = "empty_title"
    /\ web[base_url].links = << "b" >>
    /\ report.total_pages_crawled = 1

\* the links of pages with a title that has text, or with no title element,
\* are followed
TitledLinksFollowed ==
    [][(Recorded /\ HtmlServed(web'[Last(results').url])
                 /\ web'[Last(results').url].doc # "empty_title"
                 /\ Last(results').crawl_depth < max_depth
                 /\ \E l \in Range(FirstLinks(web'[Last(results').url].links,
                                              max_links_per_page)) :
                        l \notin crawled_urls')
        => Appended >= 1]_vars

\* C26: when max_depth >= 0, every frontier entry has a depth between 0 and
\* max_depth, so an entry is only ever discarded because its URL is in the
\* visited set, never for its depth; the visited set is the set of URLs of
\* the recorded pages.
C26_FrontierDepths ==
    /\ [](max_depth >= 0 =>
             \A i \in DOMAIN urls_to_crawl :
                 urls_to_crawl[i][2] >= 0 /\ urls_to_crawl[i][2] <= max_depth)
    /\ [][(max_depth >= 0 /\ Discarded)
           => (current_url \in crawled_urls /\ current_depth <= max_depth)]_vars
    /\ [](max_depth >= 0 =>
             crawled_urls = {results[i].url : i \in DOMAIN results})

\* a frontier whose only entry is for b, already fetched at depth
\* max_depth = 1 as an HTML page with a link to c that was not enqueued
C26_Witness ==
    /\ pc = "loop"
    /\ max_depth = 1 /\ max_links_per_page >= 1
    /\ urls_to_crawl = << << "b", 1 >> >>
    /\ crawled_urls = {"a", "b"}
    /\ web["b"].ok /\ web["b"].ctype = "text/html"
    /\ web["b"].links = << "c" >>

====
